---- MODULE Spec2Model ----
(***************************************************************************)
(* A model of the norcina 3x3x3 cube kernel (norcina-cube-n, norcina-cube3) *)
(* and of its two-phase (Kociemba) solver.                                 *)
(*                                                                         *)
(* Pieces are the packed bytes of the source: a corner is `---oozyx`, an   *)
(* edge is `---onnba`, a face is `axis + (direction << 2)` and a move is   *)
(* `face + (amount << 3)`.  Arrays are functions over 0..7 and 0..11, so   *)
(* that slot numbers are the source's array indices.                       *)
(***************************************************************************)
EXTENDS Integers, Sequences, FiniteSets, TLC

VARIABLES
    corners,           \* Cube::corners, [Corner; 8]
    edges,             \* Cube::edges, [Edge; 12]
    moves_done,        \* number of moves applied to Cube::SOLVED so far
    table,             \* the PruneTable handed to solve_with_table
    debug_assertions,  \* cfg(debug_assertions) of the build
    pc,                \* position inside solve_with_table
    phase1_sol,        \* the SearchSolution of solve_to_g1
    solution,          \* the SearchSolution solve_with_table returns
    panic,             \* message of the panic that ended the call, or ""
    op,                \* the function called last outside the solver, or ""
    input,             \* what that call was given: index, draws or moves
    result             \* what that call returned besides corners and edges

vars == <<corners, edges, moves_done, table, debug_assertions, pc,
          phase1_sol, solution, panic, op, input, result>>

solver_vars == <<table, debug_assertions, pc, phase1_sol, solution, panic>>

call_vars == <<op, input, result>>

(* Bound on the number of moves applied to Cube::SOLVED. *)
MaxMoves == 3

(* Bound on the length of the scramble handed to solve_with_table. *)
MaxScramble == 2

(* Bound on the passes of generate_buffer over each table of the PruneTable. *)
MaxPasses == 3

-----------------------------------------------------------------------------
(* u8 bit arithmetic *)

Pow2(k) == 2 ^ k

Shr(x, k) == x \div Pow2(k)

Bit(x, k) == Shr(x, k) % 2

Xor1(a, b) == (a + b) % 2

BitXor(a, b) ==
    Xor1(Bit(a, 0), Bit(b, 0)) + 2 * Xor1(Bit(a, 1), Bit(b, 1))
    + 4 * Xor1(Bit(a, 2), Bit(b, 2)) + 8 * Xor1(Bit(a, 3), Bit(b, 3))
    + 16 * Xor1(Bit(a, 4), Bit(b, 4)) + 32 * Xor1(Bit(a, 5), Bit(b, 5))
    + 64 * Xor1(Bit(a, 6), Bit(b, 6)) + 128 * Xor1(Bit(a, 7), Bit(b, 7))

-----------------------------------------------------------------------------
(* norcina-cube-n/src/math.rs *)

Axis_X == 0
Axis_Y == 1
Axis_Z == 2

Positive == 0
Negative == 1

Direction_flip(d) == Xor1(d, 1)

Axis_next(a) == (a + 1) % 3

Axis_prev(a) == (a + 2) % 3

Axis_other(a, b) == ((2 * a) + 3 - b) % 3

Face_R == 0
Face_U == 1
Face_F == 2
Face_L == 4
Face_D == 5
Face_B == 6

Faces == {Face_R, Face_U, Face_F, Face_L, Face_D, Face_B}

Face_new(axis, direction) == axis + (direction * 4)

Face_axis(face) == face % 4

Face_direction(face) == Bit(face, 2)

-----------------------------------------------------------------------------
(* norcina-cube-n/src/mov.rs *)

Single == 1
Double == 2
Reverse == 3

Amounts == {Single, Double, Reverse}

Amount_reverse(amount) ==
    CASE amount = Single -> Reverse
      [] amount = Double -> Double
      [] amount = Reverse -> Single

Move_new(face, amount) == face + (amount * 8)

Move_face(mov) == mov % 8

Move_amount(mov) == Shr(mov, 3)

Move_axis(mov) == Face_axis(Move_face(mov))

Move_ALL == {Move_new(f, a) : f \in Faces, a \in Amounts}

(* Move::iter(): the faces R, U, F, L, D, B, each with Single, Double,    *)
(* Reverse.                                                                *)
Move_iter ==
    [k \in 1..18 |->
        Move_new(<<Face_R, Face_U, Face_F, Face_L, Face_D, Face_B>>[((k - 1) \div 3) + 1],
                 <<Single, Double, Reverse>>[((k - 1) % 3) + 1])]

Move_inverse_same_amount(mov) == mov

Move_inverse(mov) == Move_new(Move_face(mov), Amount_reverse(Move_amount(mov)))

-----------------------------------------------------------------------------
(* norcina-cube-n/src/piece/corner.rs *)

Corner_SOLVED == [i \in 0..7 |-> i]

Corner_orientation(corner) == Shr(corner, 3) % 4

Corner_is_oriented(corner) == Corner_orientation(corner) = 0

Corner_position(corner) == corner % 8

CornerPosition_contains_face(position, face) ==
    Bit(position, Face_axis(face)) = Face_direction(face)

CornerPosition_parity(position) ==
    Xor1(Xor1(Bit(position, 0), Bit(position, 1)), Bit(position, 2))

corner_rotation_axes_single(mov) ==
    <<(Move_axis(mov) + 1) % 3, (Move_axis(mov) + 2) % 3>>

(* The pair (a, b) of the match in move_pieces, for a quarter turn. *)
corner_rotation_axes(mov) ==
    IF \/ (Move_amount(mov) = Single /\ Face_direction(Move_face(mov)) = Positive)
       \/ (Move_amount(mov) = Reverse /\ Face_direction(Move_face(mov)) = Negative)
    THEN <<(Move_axis(mov) + 1) % 3, (Move_axis(mov) + 2) % 3>>
    ELSE <<(Move_axis(mov) + 2) % 3, (Move_axis(mov) + 1) % 3>>

corner_source_slot_opposite(i, mov) ==
    IF Move_amount(mov) = Double
    THEN BitXor(i, 7)
    ELSE LET a == corner_rotation_axes(mov)[1]
             b == corner_rotation_axes(mov)[2]
             temp == Xor1(Bit(i, a), Bit(i, b))
         IN  BitXor(i, (Xor1(temp, 1) * Pow2(a)) + (temp * Pow2(b)))

(* The slot whose piece ends in slot i, for a slot i on the moved face. *)
corner_source_slot(i, mov) ==
    IF Move_amount(mov) = Double
    THEN BitXor(i, BitXor(7, Pow2(Move_axis(mov))))
    ELSE LET a == corner_rotation_axes(mov)[1]
             b == corner_rotation_axes(mov)[2]
             temp == Xor1(Bit(i, a), Bit(i, b))
         IN  BitXor(i, (Xor1(temp, 1) * Pow2(a)) + (temp * Pow2(b)))

corner_is_not_on_y_axis(mov) == Xor1(Move_axis(mov) % 2, 1)

(* The assert! of move_pieces on is_not_on_y_axis. *)
corner_axis_assert(mov) ==
    IF Move_axis(mov) = Axis_Y
    THEN corner_is_not_on_y_axis(mov) = 0
    ELSE corner_is_not_on_y_axis(mov) = 1

corner_orientation_diff_no_parity(i, mov) ==
    corner_is_not_on_y_axis(mov)
        * Pow2(Xor1(Move_amount(mov) % 2, Shr(Move_axis(mov), 1)))

corner_orientation_diff(i, mov) ==
    corner_is_not_on_y_axis(mov)
        * Pow2(Xor1(Xor1(CornerPosition_parity(i), Move_amount(mov) % 2),
                    Shr(Move_axis(mov), 1)))

(* What move_pieces computes for slot i that does not depend on the       *)
(* pieces: whether the slot is on the moved face, the slot its piece comes *)
(* from, and the orientation added to the piece (0 for a Double move).     *)
corner_slot_effect ==
    [mov \in Move_ALL |-> [i \in 0..7 |->
        IF ~CornerPosition_contains_face(i, Move_face(mov))
        THEN [moved |-> FALSE, source |-> i, orientation_diff |-> 0]
        ELSE IF Move_amount(mov) = Double
        THEN [moved |-> TRUE, source |-> corner_source_slot(i, mov),
              orientation_diff |-> 0]
        ELSE [moved |-> TRUE, source |-> corner_source_slot(i, mov),
              orientation_diff |-> corner_orientation_diff(i, mov)]]]

corner_move_pieces_swap(cs, mov) ==
    [i \in 0..7 |->
        IF ~CornerPosition_contains_face(i, Move_face(mov))
        THEN cs[i]
        ELSE cs[BitXor(i, BitXor(7, Pow2(Move_axis(mov))))]]

corner_move_pieces_no_wrap(cs, mov) ==
    [i \in 0..7 |->
        LET effect == corner_slot_effect[mov][i]
        IN  IF ~effect.moved
            THEN cs[i]
            ELSE IF Move_amount(mov) = Double
            THEN cs[effect.source]
            ELSE cs[effect.source] + (effect.orientation_diff * 8)]

(* move_pieces without the early return for the slots off the moved face. *)
corner_move_pieces_every_slot(cs, mov) ==
    [i \in 0..7 |->
        IF Move_amount(mov) = Double
        THEN cs[corner_source_slot(i, mov)]
        ELSE (cs[corner_source_slot(i, mov)]
                 + (corner_orientation_diff(i, mov) * 8)) % 24]

corner_move_pieces(cs, mov) ==
    [i \in 0..7 |->
        LET effect == corner_slot_effect[mov][i]
        IN  IF ~effect.moved
            THEN cs[i]
            ELSE IF Move_amount(mov) = Double
            THEN cs[effect.source]
            ELSE (cs[effect.source] + (effect.orientation_diff * 8)) % 24]

(* The inner while loop of count_swaps: follows one cycle from `current`. *)
RECURSIVE Corner_walk_cycle(_, _, _, _, _)
Corner_walk_cycle(cs, start_position, current, visited, output) ==
    IF Corner_position(current) = start_position
    THEN <<visited, output>>
    ELSE Corner_walk_cycle(cs, start_position, cs[Corner_position(current)],
                           visited \cup {Corner_position(current)}, output + 1)

(* The outer while-let loop of count_swaps; `visited` is the set of slots *)
(* whose flag is true.                                                    *)
RECURSIVE Corner_count_swaps_from(_, _, _)
Corner_count_swaps_from(cs, visited, output) ==
    IF (0..7) \ visited = {}
    THEN output
    ELSE LET start == CHOOSE i \in (0..7) \ visited :
                          \A j \in (0..7) \ visited : i <= j
             r == Corner_walk_cycle(cs, start, cs[start],
                                    visited \cup {start}, output)
         IN  Corner_count_swaps_from(cs, r[1], r[2])

(* count_swaps with `output` starting at 1. *)
Corner_count_swaps_from_one(cs) == Corner_count_swaps_from(cs, {}, 1)

Corner_count_swaps(cs) == Corner_count_swaps_from(cs, {}, 0)

-----------------------------------------------------------------------------
(* norcina-cube-n/src/piece/edge.rs *)

Edge_SOLVED == [i \in 0..11 |-> i]

Edge_normal(edge) == Shr(edge, 2) % 4

Edge_is_oriented(edge) == Bit(edge, 4) = 0

Edge_position(edge) == edge % 16

EdgePosition_a(position) == Bit(position, 0)

EdgePosition_b(position) == Bit(position, 1)

EdgePosition_normal(position) == Shr(position, 2) % 4

EdgePosition_from_faces(f1, f2) ==
    LET normal == Axis_other(Face_axis(f1), Face_axis(f2))
        properly_ordered == Face_axis(f1) = Axis_next(normal)
        a == IF properly_ordered THEN Face_direction(f1) ELSE Face_direction(f2)
        b == IF properly_ordered THEN Face_direction(f2) ELSE Face_direction(f1)
    IN  a + (b * 2) + (normal * 4)

(* shift is -1 (a u8 underflow in the source) when axis is the normal. *)
EdgePosition_direction_on_axis(position, axis) ==
    LET shift == ((3 - EdgePosition_normal(position) + axis) % 3) - 1
    IN  Bit(position, shift)

(* The two early returns of move_pieces: slot i is not on the moved face. *)
edge_on_face(i, mov) ==
    LET face == Move_face(mov)
    IN  \/ /\ Face_axis(face) = Axis_next(EdgePosition_normal(i))
           /\ EdgePosition_a(i) = Face_direction(face)
        \/ /\ Face_axis(face) = Axis_prev(EdgePosition_normal(i))
           /\ Face_axis(face) # Axis_next(EdgePosition_normal(i))
           /\ EdgePosition_b(i) = Face_direction(face)

edge_other_axis_offset(i, mov) ==
    IF Move_axis(mov) = Axis_next(EdgePosition_normal(i)) THEN 1 ELSE 0

(* The pair (i, j) of rotated axes of the two quarter-turn match arms. *)
edge_rotation_axes(mov) ==
    IF \/ (Move_amount(mov) = Single /\ Face_direction(Move_face(mov)) = Positive)
       \/ (Move_amount(mov) = Reverse /\ Face_direction(Move_face(mov)) = Negative)
    THEN <<(Move_axis(mov) + 1) % 3, (Move_axis(mov) + 2) % 3>>
    ELSE <<(Move_axis(mov) + 2) % 3, (Move_axis(mov) + 1) % 3>>

edge_other_face(position, mov) ==
    LET i == edge_rotation_axes(mov)[1]
        j == edge_rotation_axes(mov)[2]
    IN  IF i = EdgePosition_normal(position)
        THEN Face_new(i, Direction_flip(EdgePosition_direction_on_axis(position, j)))
        ELSE Face_new(j, EdgePosition_direction_on_axis(position, i))

edge_new_edge_pos(position, mov) ==
    EdgePosition_from_faces(edge_other_face(position, mov), Move_face(mov))

edge_is_on_z_axis(mov) == Shr(Move_axis(mov), 1)

(* What move_pieces computes for slot i that does not depend on the       *)
(* pieces: whether the slot is on the moved face, the slot its piece comes *)
(* from, and the mask xor-ed into the piece (0 for a Double move).         *)
edge_slot_effect ==
    [mov \in Move_ALL |-> [i \in 0..11 |->
        IF ~edge_on_face(i, mov)
        THEN [moved |-> FALSE, source |-> i, flip |-> 0]
        ELSE IF Move_amount(mov) = Double
        THEN [moved |-> TRUE,
              source |-> BitXor(i, Pow2(edge_other_axis_offset(i, mov))),
              flip |-> 0]
        ELSE [moved |-> TRUE, source |-> edge_new_edge_pos(i, mov),
              flip |-> edge_is_on_z_axis(mov) * 16]]]

edge_xor_flip_or(data, flip) ==
    IF flip = 0 \/ Bit(data, 4) = 1 THEN data ELSE data + 16

(* data ^ (is_on_z_axis << 4) for a byte `data` and a mask of 0 or 16. *)
edge_xor_flip(data, flip) ==
    IF flip = 0 THEN data
    ELSE IF Bit(data, 4) = 1 THEN data - 16 ELSE data + 16

edge_move_pieces(es, mov) ==
    [i \in 0..11 |->
        LET effect == edge_slot_effect[mov][i]
        IN  IF ~effect.moved
            THEN es[i]
            ELSE IF Move_amount(mov) = Double
            THEN es[effect.source]
            ELSE edge_xor_flip(es[effect.source], effect.flip)]

(* Edge::count_swaps: the cycle walk of Corner::count_swaps over 12 slots. *)
RECURSIVE Edge_walk_cycle(_, _, _, _, _)
Edge_walk_cycle(es, start_position, current, visited, output) ==
    IF Edge_position(current) = start_position
    THEN <<visited, output>>
    ELSE Edge_walk_cycle(es, start_position, es[Edge_position(current)],
                         visited \cup {Edge_position(current)}, output + 1)

RECURSIVE Edge_count_swaps_from(_, _, _)
Edge_count_swaps_from(es, visited, output) ==
    IF (0..11) \ visited = {}
    THEN output
    ELSE LET start == CHOOSE i \in (0..11) \ visited :
                          \A j \in (0..11) \ visited : i <= j
             r == Edge_walk_cycle(es, start, es[start],
                                  visited \cup {start}, output)
         IN  Edge_count_swaps_from(es, r[1], r[2])

Edge_count_swaps(es) == Edge_count_swaps_from(es, {}, 0)

-----------------------------------------------------------------------------
(* norcina-cube3/src/cube.rs *)

Cube_SOLVED == [corners |-> Corner_SOLVED, edges |-> Edge_SOLVED]

mov_single(cube, mov) ==
    [corners |-> corner_move_pieces(cube.corners, mov),
     edges |-> edge_move_pieces(cube.edges, mov)]

RECURSIVE Cube_mov(_, _)
Cube_mov(cube, alg) ==
    IF alg = <<>> THEN cube
    ELSE Cube_mov(mov_single(cube, Head(alg)), Tail(alg))

is_solved(cube) == cube = Cube_SOLVED

cube == [corners |-> corners, edges |-> edges]

-----------------------------------------------------------------------------
(* norcina-cube3/src/search/kociemba.rs *)

G1_MOVES_with_R ==
    {Move_new(Face_U, Single), Move_new(Face_U, Double), Move_new(Face_U, Reverse),
     Move_new(Face_D, Single), Move_new(Face_D, Double), Move_new(Face_D, Reverse),
     Move_new(Face_R, Single), Move_new(Face_L, Double),
     Move_new(Face_F, Double), Move_new(Face_B, Double)}

G1_MOVES ==
    {Move_new(Face_U, Single), Move_new(Face_U, Double), Move_new(Face_U, Reverse),
     Move_new(Face_D, Single), Move_new(Face_D, Double), Move_new(Face_D, Reverse),
     Move_new(Face_R, Double), Move_new(Face_L, Double),
     Move_new(Face_F, Double), Move_new(Face_B, Double)}

is_in_g1(c) ==
    /\ \A i \in 0..7 : Corner_is_oriented(c.corners[i])
    /\ \A i \in 0..11 : Edge_is_oriented(c.edges[i])
    /\ \A i \in 0..11 :
          (EdgePosition_normal(i) = Axis_Y)
              = (EdgePosition_normal(Edge_position(c.edges[i])) = Axis_Y)

-----------------------------------------------------------------------------
(* norcina-core/src/math.rs *)

RECURSIVE fac(_)
fac(n) == IF n = 0 THEN 1 ELSE n * fac(n - 1)

choose(n, m) == (fac(n) \div fac(m)) \div fac(n - m)

-----------------------------------------------------------------------------
(* norcina-cube3/src/search/kociemba/prune_table.rs: the six coordinates.  *)
(* A Subtable is a record of its index, from_index, max, initial, phase1   *)
(* and apply_mov fields; the three function fields are selected by `name`. *)

U8_MAX == 255

Corner_set_orientation(corner, orientation) ==
    BitXor(corner % 8, orientation * 8)

(* Edge::set_oriented: clears the orientation bit when is_oriented holds,  *)
(* sets it otherwise.                                                      *)
Edge_set_oriented(edge, is_oriented) ==
    (edge % 16) + (IF is_oriented THEN 0 ELSE 16)

Edge_orientation(edge) == Shr(edge, 4)

RECURSIVE CORNER_ORIENTATION_index_loop(_, _, _)
CORNER_ORIENTATION_index_loop(cs, k, index) ==
    IF k = 7 THEN index
    ELSE CORNER_ORIENTATION_index_loop(cs, k + 1,
                                       (index * 3) + Corner_orientation(cs[k]))

CORNER_ORIENTATION_index(cs) == CORNER_ORIENTATION_index_loop(cs, 0, 0)

(* The reversed loop over corners[0..7]: k runs from 6 down to 0. *)
RECURSIVE CORNER_ORIENTATION_from_index_loop(_, _, _, _)
CORNER_ORIENTATION_from_index_loop(cs, k, index, orientation_sum) ==
    IF k < 0
    THEN [cs EXCEPT ![7] = Corner_set_orientation(cs[7], (-orientation_sum) % 3)]
    ELSE CORNER_ORIENTATION_from_index_loop(
             [cs EXCEPT ![k] = Corner_set_orientation(cs[k], index % 3)],
             k - 1, index \div 3, orientation_sum + (index % 3))

CORNER_ORIENTATION_from_index(index) ==
    CORNER_ORIENTATION_from_index_loop(Corner_SOLVED, 6, index, 0)

RECURSIVE EDGE_ORIENTATION_index_loop(_, _, _)
EDGE_ORIENTATION_index_loop(es, k, output) ==
    IF k = 11 THEN output
    ELSE EDGE_ORIENTATION_index_loop(es, k + 1,
                                     (output * 2) + Edge_orientation(es[k]))

EDGE_ORIENTATION_index(es) == EDGE_ORIENTATION_index_loop(es, 0, 0)

(* The reversed loop over edges[0..11]: k runs from 10 down to 0;          *)
(* orientation_sum counts the edges set oriented.                          *)
RECURSIVE EDGE_ORIENTATION_from_index_loop(_, _, _, _)
EDGE_ORIENTATION_from_index_loop(es, k, index, orientation_sum) ==
    IF k < 0
    THEN [es EXCEPT ![11] = Edge_set_oriented(es[11], orientation_sum % 2 = 0)]
    ELSE EDGE_ORIENTATION_from_index_loop(
             [es EXCEPT ![k] = Edge_set_oriented(es[k], index % 2 = 0)],
             k - 1, index \div 2,
             orientation_sum + (IF index % 2 = 0 THEN 1 ELSE 0))

EDGE_ORIENTATION_from_index(index) ==
    EDGE_ORIENTATION_from_index_loop(Edge_SOLVED, 10, index, 0)

RECURSIVE calc_combination_mul(_, _, _, _)
calc_combination_mul(n, r, i, output) ==
    IF i = r THEN output ELSE calc_combination_mul(n, r, i + 1, output * (n - i))

RECURSIVE calc_combination_div(_, _, _)
calc_combination_div(r, i, output) ==
    IF i = r THEN output ELSE calc_combination_div(r, i + 1, output \div (r - i))

(* n - i is 0 at i = n, so the product is 0 whenever r > n; the usize      *)
(* subtraction n - i underflows only when r > n + 1.                       *)
calc_combination(n, r) ==
    calc_combination_div(r, 0, calc_combination_mul(n, r, 0, 1))

RECURSIVE IS_ON_Y_SLICE_index_loop(_, _, _, _)
IS_ON_Y_SLICE_index_loop(es, i, index, remaining) ==
    IF i < 0 THEN index
    ELSE IF EdgePosition_normal(Edge_position(es[i])) = Axis_Y
    THEN IS_ON_Y_SLICE_index_loop(es, i - 1,
                                  index + calc_combination(i, remaining),
                                  remaining - 1)
    ELSE IS_ON_Y_SLICE_index_loop(es, i - 1, index, remaining)

IS_ON_Y_SLICE_index(es) == IS_ON_Y_SLICE_index_loop(es, 11, 0, 4)

(* The debug_assert_eq! of IS_ON_Y_SLICE.index. *)
IS_ON_Y_SLICE_index_assert(es) ==
    Cardinality({i \in 0..11 : Edge_normal(es[i]) = Axis_Y}) = 4

RECURSIVE IS_ON_Y_SLICE_from_index_loop(_, _, _, _)
IS_ON_Y_SLICE_from_index_loop(es, i, index, remaining) ==
    IF i < 0 THEN es
    ELSE IF index >= calc_combination(i, remaining)
    THEN IS_ON_Y_SLICE_from_index_loop(
             [es EXCEPT ![i] = Edge_SOLVED[remaining + 3]], i - 1,
             index - calc_combination(i, remaining), remaining - 1)
    ELSE IS_ON_Y_SLICE_from_index_loop(
             [es EXCEPT ![i] = Edge_SOLVED[(i + 8 - remaining) % 12]], i - 1,
             index, remaining)

IS_ON_Y_SLICE_from_index(index) ==
    IS_ON_Y_SLICE_from_index_loop(Edge_SOLVED, 11, index, 4)

(* The inversion count of the three permutation coordinates: ps is a       *)
(* function over 0..n-1 of piece positions.                                *)
RECURSIVE permutation_index_loop(_, _, _, _)
permutation_index_loop(ps, n, i, index) ==
    IF i = n THEN index
    ELSE permutation_index_loop(ps, n, i + 1,
             (index * (n - i))
                 + Cardinality({j \in (i + 1)..(n - 1) : ps[i] > ps[j]}))

(* The decoding loop of the three permutation coordinates: i runs from     *)
(* n - 2 down to 0 over an array of n zeros.                               *)
RECURSIVE permutation_from_index_loop(_, _, _, _)
permutation_from_index_loop(arr, n, i, index) ==
    IF i < 0 THEN arr
    ELSE LET v == index % (n - i)
         IN  permutation_from_index_loop(
                 [j \in 0..(n - 1) |->
                     IF j = i THEN v
                     ELSE IF j > i /\ arr[j] >= v THEN arr[j] + 1
                     ELSE arr[j]],
                 n, i - 1, index \div (n - i))

CORNER_POSITION_index(cs) ==
    permutation_index_loop([i \in 0..7 |-> Corner_position(cs[i])], 8, 0, 0)

CORNER_POSITION_from_index(index) ==
    permutation_from_index_loop([i \in 0..7 |-> 0], 8, 6, index)

(* Y_SLICE_POSITION.index reading the slots 4..11 in place of the slots    *)
(* 0..3 and 8..11.                                                         *)
Y_SLICE_POSITION_index_contiguous(es) ==
    permutation_index_loop([i \in 0..7 |-> Edge_position(es[i + 4])], 8, 0, 0)

Y_SLICE_POSITION_index(es) ==
    permutation_index_loop(
        [i \in 0..7 |-> Edge_position(IF i < 4 THEN es[i] ELSE es[i + 4])],
        8, 0, 0)

Y_SLICE_POSITION_from_index(index) ==
    LET arr == permutation_from_index_loop([i \in 0..7 |-> 0], 8, 6, index)
    IN  [i \in 0..11 |->
            IF i < 4 THEN arr[i]
            ELSE IF i >= 8 THEN arr[i - 4]
            ELSE Edge_SOLVED[i]]

NON_Y_SLICE_POSITION_index(es) ==
    permutation_index_loop([i \in 0..3 |-> Edge_position(es[i + 4])], 4, 0, 0)

NON_Y_SLICE_POSITION_from_index(index) ==
    LET arr == permutation_from_index_loop([i \in 0..3 |-> 0], 4, 2, index)
    IN  [i \in 0..11 |->
            IF i >= 4 /\ i < 8 THEN arr[i - 4] ELSE Edge_SOLVED[i]]

CORNER_ORIENTATION ==
    [name |-> "CORNER_ORIENTATION", max |-> 3 ^ (8 - 1),
     initial |-> Corner_SOLVED, phase1 |-> TRUE]

EDGE_ORIENTATION ==
    [name |-> "EDGE_ORIENTATION", max |-> 2 ^ (12 - 1),
     initial |-> Edge_SOLVED, phase1 |-> TRUE]

IS_ON_Y_SLICE ==
    [name |-> "IS_ON_Y_SLICE", max |-> choose(12, 4),
     initial |-> Edge_SOLVED, phase1 |-> TRUE]

CORNER_POSITION ==
    [name |-> "CORNER_POSITION", max |-> fac(8),
     initial |-> Corner_SOLVED, phase1 |-> FALSE]

Y_SLICE_POSITION ==
    [name |-> "Y_SLICE_POSITION", max |-> fac(8),
     initial |-> Edge_SOLVED, phase1 |-> FALSE]

NON_Y_SLICE_POSITION ==
    [name |-> "NON_Y_SLICE_POSITION", max |-> fac(4),
     initial |-> Edge_SOLVED, phase1 |-> FALSE]

Subtable_index(sub, state) ==
    CASE sub.name = "CORNER_ORIENTATION" -> CORNER_ORIENTATION_index(state)
      [] sub.name = "EDGE_ORIENTATION" -> EDGE_ORIENTATION_index(state)
      [] sub.name = "IS_ON_Y_SLICE" -> IS_ON_Y_SLICE_index(state)
      [] sub.name = "CORNER_POSITION" -> CORNER_POSITION_index(state)
      [] sub.name = "Y_SLICE_POSITION" -> Y_SLICE_POSITION_index(state)
      [] sub.name = "NON_Y_SLICE_POSITION" -> NON_Y_SLICE_POSITION_index(state)

Subtable_from_index(sub, index) ==
    CASE sub.name = "CORNER_ORIENTATION" -> CORNER_ORIENTATION_from_index(index)
      [] sub.name = "EDGE_ORIENTATION" -> EDGE_ORIENTATION_from_index(index)
      [] sub.name = "IS_ON_Y_SLICE" -> IS_ON_Y_SLICE_from_index(index)
      [] sub.name = "CORNER_POSITION" -> CORNER_POSITION_from_index(index)
      [] sub.name = "Y_SLICE_POSITION" -> Y_SLICE_POSITION_from_index(index)
      [] sub.name = "NON_Y_SLICE_POSITION" -> NON_Y_SLICE_POSITION_from_index(index)

Subtable_apply_mov(sub, state, mov) ==
    IF sub.name \in {"CORNER_ORIENTATION", "CORNER_POSITION"}
    THEN corner_move_pieces(state, mov)
    ELSE edge_move_pieces(state, mov)

Subtable_moves(sub) == IF sub.phase1 THEN Move_ALL ELSE G1_MOVES

(* The buffer of generate_buffer is held as the map from the indices      *)
(* written so far to their values: every other index below `max` still    *)
(* holds the u8::MAX of `vec![u8::MAX; max]`.                              *)
buffer_get(buffer, i) == IF i \in DOMAIN buffer THEN buffer[i] ELSE U8_MAX

(* One pass `for i in 0..max` of the depth loop of generate_buffer.  An    *)
(* entry written in the pass holds `depth`, so it is not expanded in the   *)
(* same pass: the entries expanded are those holding depth - 1 when the    *)
(* pass starts, and the pass writes `depth` to every entry above `depth`   *)
(* that one of them reaches.                                               *)
generate_buffer_pass_off_by_one(sub, buffer, depth) ==
    LET reached ==
            UNION {LET state == Subtable_from_index(sub, i)
                   IN  {Subtable_index(sub, Subtable_apply_mov(sub, state, mov)) :
                            mov \in Subtable_moves(sub)} :
                       i \in {j \in DOMAIN buffer : buffer[j] = depth - 1}}
        written == {i \in reached : buffer_get(buffer, i) > depth}
    IN  [i \in (DOMAIN buffer) \cup written |->
            IF i \in written THEN depth + 1 ELSE buffer[i]]

generate_buffer_pass(sub, buffer, depth) ==
    LET reached ==
            UNION {LET state == Subtable_from_index(sub, i)
                   IN  {Subtable_index(sub, Subtable_apply_mov(sub, state, mov)) :
                            mov \in Subtable_moves(sub)} :
                       i \in {j \in DOMAIN buffer : buffer[j] = depth - 1}}
        written == {i \in reached : buffer_get(buffer, i) > depth}
    IN  [i \in (DOMAIN buffer) \cup written |->
            IF i \in written THEN depth ELSE buffer[i]]

(* The loop `for depth in 1..`: it ends with the first pass that writes    *)
(* nothing (`complete`).  The model runs at most `passes` passes of it;    *)
(* the result records whether the loop had ended by then.                  *)
RECURSIVE generate_buffer_loop(_, _, _, _)
generate_buffer_loop(sub, buffer, depth, passes) ==
    IF depth > passes
    THEN [buffer |-> buffer, complete |-> FALSE, passes |-> passes]
    ELSE LET next == generate_buffer_pass(sub, buffer, depth)
         IN  IF next = buffer
             THEN [buffer |-> buffer, complete |-> TRUE, passes |-> depth]
             ELSE generate_buffer_loop(sub, next, depth + 1, passes)

(* generate_buffer setting entry 0, not entry index(initial), to 0. *)
generate_buffer_entry_zero(sub, passes) ==
    generate_buffer_loop(sub, [i \in {0} |-> 0], 1, passes)

generate_buffer(sub, passes) ==
    generate_buffer_loop(
        sub, [i \in {Subtable_index(sub, sub.initial)} |-> 0], 1, passes)

PruneTable_fields(generated) ==
    [orient_corners |-> generated[CORNER_ORIENTATION],
     orient_edges |-> generated[EDGE_ORIENTATION],
     put_edges_to_y_slice |-> generated[IS_ON_Y_SLICE],
     permute_corners |-> generated[CORNER_POSITION],
     permute_y_slice_edges |-> generated[Y_SLICE_POSITION],
     permute_non_y_slice_edges |-> generated[NON_Y_SLICE_POSITION]]

PruneTable_generate(passes) ==
    PruneTable_fields(
        [sub \in {CORNER_ORIENTATION, EDGE_ORIENTATION, IS_ON_Y_SLICE,
                  CORNER_POSITION, Y_SLICE_POSITION, NON_Y_SLICE_POSITION} |->
            generate_buffer(sub, passes)])

(* The six tables, the field of the PruneTable that holds the table of     *)
(* `sub`, and the part of a cube that `sub` indexes.                       *)
Subtables ==
    {CORNER_ORIENTATION, EDGE_ORIENTATION, IS_ON_Y_SLICE,
     CORNER_POSITION, Y_SLICE_POSITION, NON_Y_SLICE_POSITION}

PruneTable_field(t, sub) ==
    CASE sub.name = "CORNER_ORIENTATION" -> t.orient_corners
      [] sub.name = "EDGE_ORIENTATION" -> t.orient_edges
      [] sub.name = "IS_ON_Y_SLICE" -> t.put_edges_to_y_slice
      [] sub.name = "CORNER_POSITION" -> t.permute_corners
      [] sub.name = "Y_SLICE_POSITION" -> t.permute_y_slice_edges
      [] sub.name = "NON_Y_SLICE_POSITION" -> t.permute_non_y_slice_edges

Subtable_state(sub, c) ==
    IF sub.name \in {"CORNER_ORIENTATION", "CORNER_POSITION"}
    THEN c.corners
    ELSE c.edges

(* The read `self.<field>[index]` of a heuristic.  An entry that the       *)
(* bounded generation has not written yet is written by a later pass of    *)
(* the loop: its value is above `passes` and is not known to the model     *)
(* (`known` is FALSE and `value` is the lower bound passes + 1).           *)
table_entry(generated, sub, index) ==
    IF index >= sub.max
    THEN [panic |-> "index out of bounds", known |-> FALSE, value |-> 0]
    ELSE IF index \in DOMAIN generated.buffer
    THEN [panic |-> "", known |-> TRUE, value |-> generated.buffer[index]]
    ELSE IF generated.complete
    THEN [panic |-> "", known |-> TRUE, value |-> U8_MAX]
    ELSE [panic |-> "", known |-> FALSE, value |-> generated.passes + 1]

(* u8::max of two reads; a panic of the first read comes first. *)
entry_max(x, y) ==
    IF x.panic # "" THEN x
    ELSE IF y.panic # "" THEN y
    ELSE [panic |-> "", known |-> x.known /\ y.known,
          value |-> IF x.value >= y.value THEN x.value ELSE y.value]

phase1_distance_heuristic(t, c) ==
    LET co == table_entry(t.orient_corners, CORNER_ORIENTATION,
                          CORNER_ORIENTATION_index(c.corners))
        eo == table_entry(t.orient_edges, EDGE_ORIENTATION,
                          EDGE_ORIENTATION_index(c.edges))
        y_slice ==
            IF debug_assertions /\ ~IS_ON_Y_SLICE_index_assert(c.edges)
            THEN [panic |-> "assertion failed: left == right",
                  known |-> FALSE, value |-> 0]
            ELSE table_entry(t.put_edges_to_y_slice, IS_ON_Y_SLICE,
                             IS_ON_Y_SLICE_index(c.edges))
    IN  CHOOSE h \in {entry_max(entry_max(x, y), z) :
                          x \in {co}, y \in {eo}, z \in {y_slice}} : TRUE

phase2_distance_heuristic(t, c) ==
    IF debug_assertions /\ ~is_in_g1(c)
    THEN [panic |-> "assertion failed: is_in_g1(cube)",
          known |-> FALSE, value |-> 0]
    ELSE LET pco == table_entry(t.permute_corners, CORNER_POSITION,
                                CORNER_POSITION_index(c.corners))
             pye == table_entry(t.permute_y_slice_edges, Y_SLICE_POSITION,
                                Y_SLICE_POSITION_index(c.edges))
             pnye == table_entry(t.permute_non_y_slice_edges,
                                 NON_Y_SLICE_POSITION,
                                 NON_Y_SLICE_POSITION_index(c.edges))
         IN  CHOOSE h \in {entry_max(entry_max(x, y), z) :
                               x \in {pco}, y \in {pye}, z \in {pnye}} : TRUE

-----------------------------------------------------------------------------
(* norcina-cube3/src/search/mod.rs and the idastar it calls.               *)

(* Cube::neighbors: the 18 moves of Move::iter() with the cubes they give. *)
neighbors(c) ==
    [k \in 1..18 |-> [mov |-> Move_iter[k], state |-> mov_single(c, Move_iter[k])]]

connect_reversed(start, end) ==
    LET found == {k \in 1..18 : mov_single(end, Move_iter[k]) = start}
    IN  IF found = {} THEN <<>>
        ELSE <<Move_iter[CHOOSE k \in found : \A j \in found : k <= j]>>

(* connect: the first move of Move::iter() that takes start to end, as a   *)
(* sequence of one move, or <<>> for None.                                 *)
connect(start, end) ==
    LET found == {k \in 1..18 : mov_single(start, Move_iter[k]) = end}
    IN  IF found = {} THEN <<>>
        ELSE <<Move_iter[CHOOSE k \in found : \A j \in found : k <= j]>>

(* reconstruct_solution: connect over windows(2) of the state path; the    *)
(* unwrap of a None panics.                                                *)
RECURSIVE reconstruct_solution(_)

reconstruct_window(first, state_path) ==
    IF first = <<>>
    THEN [panic |-> "called Option::unwrap() on a None value", moves |-> <<>>]
    ELSE [panic |-> reconstruct_solution(Tail(state_path)).panic,
          moves |-> first \o reconstruct_solution(Tail(state_path)).moves]

reconstruct_solution(state_path) ==
    IF Len(state_path) < 2 THEN [panic |-> "", moves |-> <<>>]
    ELSE reconstruct_window(connect(state_path[1], state_path[2]), state_path)

(* The results of idastar's search: Path::Found, Path::Minimum and         *)
(* Path::Impossible, a panic of the heuristic or of the u8 addition, and   *)
(* Unknown when the result depends on a table entry the bounded generation *)
(* has not written.                                                        *)
Path(kind, path, min, known, reason) ==
    [kind |-> kind, path |-> path, min |-> min, known |-> known,
     reason |-> reason]

Path_Found(path) == Path("Found", path, 0, TRUE, "")

Path_Minimum(min, known) == Path("Minimum", <<>>, min, known, "")

Path_Impossible == Path("Impossible", <<>>, 0, TRUE, "")

Path_Panic(reason) == Path("Panic", <<>>, 0, TRUE, reason)

Path_Unknown == Path("Unknown", <<>>, 0, FALSE, "")

Path_ends_search(r) == r.kind \in {"Found", "Panic", "Unknown"}

(* The heuristic and the goal closures of solve_to_g1 (phase 1) and of     *)
(* solve_from_g1 (phase 2).                                                *)
heuristic(phase, c) ==
    IF phase = 1 THEN phase1_distance_heuristic(table, c)
    ELSE phase2_distance_heuristic(table, c)

goal(phase, c) == IF phase = 1 THEN is_in_g1(c) ELSE is_solved(c)

(* The fold `min = Some(m)` of search over results that are all Minimum or *)
(* Impossible.  A lower bound of an unwritten entry that is below every    *)
(* known minimum leaves the minimum unknown.                               *)
least_minimum(results) ==
    LET minima == {r \in results : r.kind = "Minimum"}
    IN  IF minima = {} THEN Path_Impossible
        ELSE LET least == CHOOSE r \in minima : \A q \in minima : r.min <= q.min
             IN  Path_Minimum(least.min,
                              \E r \in minima : r.min = least.min /\ r.known)

(* search of idastar.  Its value is the set of results the call can have:  *)
(* sort_unstable_by leaves the order of neighbours with equal keys open,   *)
(* so the neighbours of one key are searched in any order.  A value that   *)
(* is used more than once is bound by `x \in {e}`, which evaluates it      *)
(* once.                                                                   *)
RECURSIVE search(_, _, _, _)
RECURSIVE search_neighbs(_, _, _, _, _, _)

(* The filter_map over successors(start): the neighbours ns that are not   *)
(* on the path, each with its heuristic.                                   *)
search_successors(path, phase, ns) ==
    {[k |-> k, node |-> ns[k].state, h |-> heuristic(phase, ns[k].state)] :
        k \in {j \in 1..18 : \A i \in 1..Len(path) : path[i] # ns[j].state}}

(* The heuristic of successor s panics, or `c + h` overflows its u8. *)
successor_panics(s) ==
    \/ s.h.panic # ""
    \/ debug_assertions /\ 1 + s.h.value > U8_MAX

(* The results of the neighbours of one key, then the rest of the loop     *)
(* `for (node, extra, _) in neighbs`.                                      *)
search_group(path, cost, bound, phase, rest, min, results) ==
    IF \E r \in results : Path_ends_search(r)
    THEN {r \in results : Path_ends_search(r)}
    ELSE UNION {search_neighbs(path, cost, bound, phase, rest, least) :
                   least \in {least_minimum(results \cup {min})}}

search_neighbs(path, cost, bound, phase, neighbs, min) ==
    IF neighbs = {} THEN {min}
    ELSE UNION {search_group(path, cost, bound, phase, rest, min, results) :
                   <<rest, results>> \in
                       {<<{n \in neighbs : n.key # key},
                          UNION {search(Append(path, n.node), cost + 1, bound, phase) :
                                    n \in {m \in neighbs : m.key = key}}>> :
                           key \in {k \in {n.key : n \in neighbs} :
                                        \A n \in neighbs : k <= n.key}}}

(* search from the collected successors succ on: the first successor in    *)
(* the order of Move::iter() whose heuristic panics ends the call.         *)
search_sorted(path, cost, bound, phase, succ) ==
    IF \E s \in succ : successor_panics(s)
    THEN LET first == CHOOSE s \in succ :
                          /\ successor_panics(s)
                          /\ \A q \in succ : successor_panics(q) => s.k <= q.k
         IN  {Path_Panic(IF first.h.panic # "" THEN first.h.panic
                         ELSE "attempt to add with overflow")}
    ELSE UNION {search_neighbs(path, cost, bound, phase, neighbs, Path_Impossible) :
                   neighbs \in {{[node |-> s.node,
                                   key |-> (1 + s.h.value) % (U8_MAX + 1)] :
                                     s \in succ}}}

(* search with h the heuristic of the last state of the path. *)
search_start(path, cost, bound, phase, h) ==
    IF h.panic # "" THEN {Path_Panic(h.panic)}
    ELSE IF debug_assertions /\ cost + h.value > U8_MAX
    THEN {Path_Panic("attempt to add with overflow")}
    ELSE IF (cost + h.value) % (U8_MAX + 1) > bound
    THEN {Path_Minimum((cost + h.value) % (U8_MAX + 1), h.known)}
    ELSE IF ~h.known THEN {Path_Unknown}
    ELSE IF goal(phase, path[Len(path)]) THEN {Path_Found(path)}
    ELSE UNION {search_sorted(path, cost, bound, phase, succ) :
                   succ \in {UNION {search_successors(path, phase, ns) :
                                       ns \in {neighbors(path[Len(path)])}}}}

search(path, cost, bound, phase) ==
    UNION {search_start(p, cost, bound, phase, heuristic(phase, p[Len(p)])) :
              p \in {path}}

(* The loop of idastar: search with the bound raised to the minimum that   *)
(* the last search returned, until a path is found.                        *)
RECURSIVE idastar_loop(_, _, _)

idastar_match(start, phase, results) ==
    LET last == CHOOSE r \in results : TRUE
    IN  IF \E r \in results : Path_ends_search(r)
        THEN {r \in results : Path_ends_search(r)}
        ELSE IF last.kind = "Impossible" THEN {Path_Impossible}
        ELSE IF ~last.known THEN {Path_Unknown}
        ELSE idastar_loop(start, phase, last.min)

idastar_loop(start, phase, bound) ==
    UNION {idastar_match(start, phase, results) :
              results \in {search(<<start>>, 0, bound, phase)}}

(* idastar with h the heuristic of start, the first bound. *)
idastar_bound(start, phase, h) ==
    IF h.panic # "" THEN {Path_Panic(h.panic)}
    ELSE IF ~h.known THEN {Path_Unknown}
    ELSE idastar_loop(start, phase, h.value)

idastar(start, phase) ==
    UNION {idastar_bound(start, phase, h) : h \in {heuristic(phase, start)}}

(* A SearchSolution holds the moves of a search and the state they end in. *)
SearchSolution(moves, final_state) ==
    [moves |-> moves, final_state |-> final_state]

SearchSolution_concat(first, second) ==
    SearchSolution(first.moves \o second.moves, second.final_state)

(* The SearchSolution of a state path whose moves are `rebuilt`. *)
search_solution(state_path, rebuilt) ==
    [panic |-> rebuilt.panic, known |-> TRUE,
     sol |-> SearchSolution(rebuilt.moves, state_path[Len(state_path)])]

(* search_idastar: the results it can have, each either a panic, a         *)
(* solution, or unknown.                                                   *)
search_idastar(initial_state, phase) ==
    {IF r.kind = "Panic" THEN [panic |-> r.reason, known |-> TRUE, sol |-> <<>>]
     ELSE IF r.kind = "Impossible"
     THEN [panic |-> "Search space won't be exhausted.", known |-> TRUE,
           sol |-> <<>>]
     ELSE IF r.kind = "Unknown" THEN [panic |-> "", known |-> FALSE, sol |-> <<>>]
     ELSE search_solution(r.path, reconstruct_solution(r.path)) :
        r \in idastar(initial_state, phase)}

-----------------------------------------------------------------------------
(* The cube under arbitrary move sequences: Cube::SOLVED.mov(scramble). *)

Init ==
    /\ corners = Corner_SOLVED
    /\ edges = Edge_SOLVED
    /\ moves_done = 0
    /\ table = <<>>
    /\ debug_assertions = TRUE
    /\ pc = "idle"
    /\ phase1_sol = <<>>
    /\ solution = <<>>
    /\ panic = ""
    /\ op = ""
    /\ input = <<>>
    /\ result = <<>>

MovSingle(mov) ==
    /\ pc = "idle"
    /\ moves_done < MaxMoves
    /\ corners' = corner_move_pieces(corners, mov)
    /\ edges' = edge_move_pieces(edges, mov)
    /\ moves_done' = moves_done + 1
    /\ UNCHANGED solver_vars
    /\ UNCHANGED call_vars

Next == \E mov \in Move_ALL : MovSingle(mov)

Spec == Init /\ [][Next]_vars

(* The cube under sequences of G1 moves only. *)
NextG1 == \E mov \in G1_MOVES : MovSingle(mov)

SpecG1 == Init /\ [][NextG1]_vars

-----------------------------------------------------------------------------
(* norcina-cube3/src/search/kociemba.rs: solve_with_table on a scrambled   *)
(* cube, with the table PruneTable::generate() gives, in a build with or   *)
(* without debug assertions.                                               *)

SolveInit ==
    /\ table = PruneTable_generate(MaxPasses)
    /\ debug_assertions \in BOOLEAN
    /\ corners = Corner_SOLVED
    /\ edges = Edge_SOLVED
    /\ moves_done = 0
    /\ pc = "idle"
    /\ phase1_sol = <<>>
    /\ solution = <<>>
    /\ panic = ""
    /\ op = ""
    /\ input = <<>>
    /\ result = <<>>

Scramble(mov) ==
    /\ moves_done < MaxScramble
    /\ MovSingle(mov)

(* solve_with_table up to the call of solve_from_g1. *)
SolveToG1 ==
    /\ pc = "idle"
    /\ \E r \in search_idastar(cube, 1) :
          /\ r.known
          /\ IF r.panic # ""
             THEN /\ pc' = "panicked"
                  /\ panic' = r.panic
                  /\ UNCHANGED phase1_sol
             ELSE IF debug_assertions /\ ~is_in_g1(r.sol.final_state)
             THEN /\ pc' = "panicked"
                  /\ panic' = "assertion failed: is_in_g1(phase1_sol.final_state())"
                  /\ UNCHANGED phase1_sol
             ELSE /\ pc' = "phase2"
                  /\ phase1_sol' = r.sol
                  /\ UNCHANGED panic
    /\ UNCHANGED <<corners, edges, moves_done, table, debug_assertions, solution>>
    /\ UNCHANGED call_vars

(* solve_from_g1 and the concat of the two solutions. *)
SolveFromG1 ==
    /\ pc = "phase2"
    /\ IF debug_assertions /\ ~is_in_g1(phase1_sol.final_state)
       THEN /\ pc' = "panicked"
            /\ panic' = "assertion failed: is_in_g1(cube)"
            /\ UNCHANGED solution
       ELSE \E r \in search_idastar(phase1_sol.final_state, 2) :
               /\ r.known
               /\ IF r.panic # ""
                  THEN /\ pc' = "panicked"
                       /\ panic' = r.panic
                       /\ UNCHANGED solution
                  ELSE /\ pc' = "returned"
                       /\ solution' = SearchSolution_concat(phase1_sol, r.sol)
                       /\ UNCHANGED panic
    /\ UNCHANGED <<corners, edges, moves_done, table, debug_assertions, phase1_sol>>
    /\ UNCHANGED call_vars

SolveNext ==
    \/ \E mov \in Move_ALL : Scramble(mov)
    \/ SolveToG1
    \/ SolveFromG1

SolveSpec == SolveInit /\ [][SolveNext]_vars

(* solve_with_table runs to its end once called: the call of solve_to_g1   *)
(* and the call of solve_from_g1 are each taken when they can be.          *)
SolveFairSpec ==
    /\ SolveInit
    /\ [][SolveNext]_vars
    /\ WF_vars(SolveToG1)
    /\ WF_vars(SolveFromG1)

-----------------------------------------------------------------------------
(* norcina-cube3/src/search/kociemba/prune_table.rs, test_id: a coordinate *)
(* decodes an index and encodes the state again.  The decoded state is the *)
(* corners or the edges of the cube; `index` is the usize quickcheck draws, *)
(* here up to `max` itself so that `index % max` wraps.                    *)

IndexInit ==
    /\ corners = Corner_SOLVED
    /\ edges = Edge_SOLVED
    /\ moves_done = 0
    /\ table = <<>>
    /\ debug_assertions = TRUE
    /\ pc = "idle"
    /\ phase1_sol = <<>>
    /\ solution = <<>>
    /\ panic = ""
    /\ op = ""
    /\ result = <<>>
    /\ input \in UNION {[subtable : {sub.name}, index : 0..sub.max] :
                           sub \in Subtables}

TestId(sub) ==
    /\ op = ""
    /\ input.subtable = sub.name
    /\ op' = "test_id"
    /\ input' = [subtable |-> sub.name, i |-> input.index % sub.max]
    /\ IF sub.name \in {"CORNER_ORIENTATION", "CORNER_POSITION"}
       THEN /\ corners' = Subtable_from_index(sub, input.index % sub.max)
            /\ edges' = edges
            /\ result' = Subtable_index(sub, corners')
       ELSE /\ edges' = Subtable_from_index(sub, input.index % sub.max)
            /\ corners' = corners
            /\ result' = Subtable_index(sub, edges')
    /\ UNCHANGED moves_done
    /\ UNCHANGED solver_vars

IndexNext == \E sub \in Subtables : TestId(sub)

IndexSpec == IndexInit /\ [][IndexNext]_vars

-----------------------------------------------------------------------------
(* Corner::random, Edge::random and Cube::random_with_rng.  The draws of   *)
(* the rng are the `input` of the call: the outcome of the shuffle, the    *)
(* orientations drawn for the first 7 corners or 11 edges and, inside the  *)
(* action, the draws of the conditional swap.                              *)

(* Bound on the pairs of slots a drawn shuffle exchanges. *)
MaxShuffleSwaps == 1

(* Bound on the slots whose drawn orientation is not 0 in the draws of     *)
(* Cube::random_with_rng; Corner::random and Edge::random on their own get *)
(* every orientation draw.                                                 *)
MaxCubeOriented == 1

(* The outcomes of `out.shuffle(rng)` on an array of n pieces, as the map  *)
(* from a slot to the slot of SOLVED its piece comes from.                 *)
RECURSIVE Shuffles(_, _)
Shuffles(n, k) ==
    IF k = 0 THEN {[i \in 0..(n - 1) |-> i]}
    ELSE {[p EXCEPT ![i] = p[j], ![j] = p[i]] :
              p \in Shuffles(n, k - 1), i \in 0..(n - 1), j \in 0..(n - 1)}

(* Corner::random.  orientation_sum is a u8; -(orientation_sum as i8) % 3  *)
(* is the truncating remainder of a negative i8, one of 0, -1, -2; shifted *)
(* left by 3 it is 0, -8 or -16, and `as u8` makes that 0, 248 or 240.     *)
(* The sum with out[7].data, at most 7, stays below 256.                   *)
Corner_random(shuffle, orientation) ==
    LET out == [i \in 0..7 |->
                   Corner_SOLVED[shuffle[i]]
                       + (IF i < 7 THEN orientation[i] * Pow2(3) ELSE 0)]
        orientation_sum ==
            orientation[0] + orientation[1] + orientation[2] + orientation[3]
                + orientation[4] + orientation[5] + orientation[6]
        remainder == 0 - (orientation_sum % 3)
    IN  [out EXCEPT ![7] = @ + (((remainder * Pow2(3)) + (U8_MAX + 1))
                                   % (U8_MAX + 1))]

(* Edge::random: each drawn orientation is added as `(orientation as u8)   *)
(* << 3`, and so is the XOR of the 11 draws to out[11].                    *)
Edge_random(shuffle, orientation) ==
    LET out == [i \in 0..11 |->
                   Edge_SOLVED[shuffle[i]]
                       + (IF i < 11 /\ orientation[i] THEN Pow2(3) ELSE 0)]
        final_orientation ==
            Cardinality({i \in 0..10 : orientation[i]}) % 2 = 1
    IN  [out EXCEPT ![11] = @ + (IF final_orientation THEN Pow2(3) ELSE 0)]

(* Edge::count_swaps(edges) % 2 as random_with_rng sees it.  The walk over *)
(* the cycles has a value when the 12 edges hold the 12 positions; on any  *)
(* other array it is outside of what it was written for, and the call may  *)
(* give either parity or not return.                                       *)
Edge_swap_parity(es) ==
    IF {Edge_position(es[i]) : i \in 0..11} = 0..11
    THEN {[returned |-> TRUE, value |-> Edge_count_swaps(es) % 2]}
    ELSE [returned : BOOLEAN, value : {0, 1}]

RandomInit ==
    /\ corners = Corner_SOLVED
    /\ edges = Edge_SOLVED
    /\ moves_done = 0
    /\ table = <<>>
    /\ debug_assertions = TRUE
    /\ pc = "idle"
    /\ phase1_sol = <<>>
    /\ solution = <<>>
    /\ panic = ""
    /\ op = ""
    /\ result = <<>>
    /\ input \in
          [fn : {"Corner::random"}, shuffle : Shuffles(8, MaxShuffleSwaps),
           orientation : [0..6 -> 0..2]]
          \cup
          [fn : {"Edge::random"}, shuffle : Shuffles(12, MaxShuffleSwaps),
           orientation : [0..10 -> BOOLEAN]]
          \cup
          [fn : {"Cube::random_with_rng"},
           corner_shuffle : Shuffles(8, MaxShuffleSwaps),
           corner_orientation :
               {o \in [0..6 -> 0..2] : \A i \in MaxCubeOriented..6 : o[i] = 0},
           edge_shuffle : Shuffles(12, MaxShuffleSwaps),
           edge_orientation :
               {o \in [0..10 -> BOOLEAN] : \A i \in MaxCubeOriented..10 : ~o[i]}]

CornerRandom ==
    /\ op = ""
    /\ input.fn = "Corner::random"
    /\ op' = "Corner::random"
    /\ corners' = Corner_random(input.shuffle, input.orientation)
    /\ UNCHANGED <<edges, moves_done, input, result>>
    /\ UNCHANGED solver_vars

EdgeRandom ==
    /\ op = ""
    /\ input.fn = "Edge::random"
    /\ op' = "Edge::random"
    /\ edges' = Edge_random(input.shuffle, input.orientation)
    /\ UNCHANGED <<corners, moves_done, input, result>>
    /\ UNCHANGED solver_vars

(* Cube::random_with_rng.  `rng.random()` picks the piece type; i and j    *)
(* are the draws of random_range, j moved past i.  `result` holds the two  *)
(* parities that dbg! prints and whether the call returned.                *)
RandomWithRng ==
    /\ op = ""
    /\ input.fn = "Cube::random_with_rng"
    /\ op' = "Cube::random_with_rng"
    /\ \E cs \in {Corner_random(input.corner_shuffle, input.corner_orientation)} :
       \E es \in {Edge_random(input.edge_shuffle, input.edge_orientation)} :
       \E corner_swap_parity \in {Corner_count_swaps(cs) % 2} :
       \E edge_swap_parity \in Edge_swap_parity(es) :
          /\ result' = [corner_swap_parity |-> corner_swap_parity,
                        edge_swap_parity |-> edge_swap_parity.value,
                        returned |-> edge_swap_parity.returned]
          /\ IF ~edge_swap_parity.returned
             THEN UNCHANGED <<corners, edges>>
             ELSE IF corner_swap_parity # edge_swap_parity.value
             THEN \/ \E i \in 0..7 : \E r \in 0..6 :
                     \E j \in {IF r >= i THEN r + 1 ELSE r} :
                        /\ corners' = [cs EXCEPT ![i] = cs[j], ![j] = cs[i]]
                        /\ edges' = es
                  \/ \E i \in 0..11 : \E r \in 0..10 :
                     \E j \in {IF r >= i THEN r + 1 ELSE r} :
                        /\ corners' = cs
                        /\ edges' = [es EXCEPT ![i] = es[j], ![j] = es[i]]
             ELSE /\ corners' = cs
                  /\ edges' = es
    /\ UNCHANGED <<moves_done, input>>
    /\ UNCHANGED solver_vars

RandomNext == CornerRandom \/ EdgeRandom \/ RandomWithRng

RandomSpec == RandomInit /\ [][RandomNext]_vars

-----------------------------------------------------------------------------
(* norcina-cube3/src/cube.rs, Cube::mov: a sequence of moves applied to    *)
(* the cube over and over.  The sequences drawn are the commutators        *)
(* a b a' b' of two moves and the T permutation of mov/alg.rs.             *)

(* algs::oll::T: R U R' U' R' F R2 U' R' U' R U R' F'. *)
algs_oll_T ==
    <<Move_new(Face_R, Single), Move_new(Face_U, Single),
      Move_new(Face_R, Reverse), Move_new(Face_U, Reverse),
      Move_new(Face_R, Reverse), Move_new(Face_F, Single),
      Move_new(Face_R, Double), Move_new(Face_U, Reverse),
      Move_new(Face_R, Reverse), Move_new(Face_U, Reverse),
      Move_new(Face_R, Single), Move_new(Face_U, Single),
      Move_new(Face_R, Reverse), Move_new(Face_F, Reverse)>>

(* Bound on the number of times the sequence is applied. *)
MaxRepeats == 6

AlgInit ==
    /\ corners = Corner_SOLVED
    /\ edges = Edge_SOLVED
    /\ moves_done = 0
    /\ table = <<>>
    /\ debug_assertions = TRUE
    /\ pc = "idle"
    /\ phase1_sol = <<>>
    /\ solution = <<>>
    /\ panic = ""
    /\ op = ""
    /\ result = <<>>
    /\ input \in {[fn |-> "Cube::mov",
                    alg |-> <<a, b, Move_inverse(a), Move_inverse(b)>>] :
                       a \in Move_ALL, b \in Move_ALL}
                 \cup {[fn |-> "Cube::mov", alg |-> algs_oll_T]}

Mov ==
    /\ input.fn = "Cube::mov"
    /\ moves_done < MaxRepeats * Len(input.alg)
    /\ op' = "Cube::mov"
    /\ corners' = Cube_mov(cube, input.alg).corners
    /\ edges' = Cube_mov(cube, input.alg).edges
    /\ moves_done' = moves_done + Len(input.alg)
    /\ UNCHANGED <<input, result>>
    /\ UNCHANGED solver_vars

AlgSpec == AlgInit /\ [][Mov]_vars

-----------------------------------------------------------------------------
(* norcina-cube-n/src/piece/corner.rs, Corner::count_swaps on the corners  *)
(* that slot transpositions make of Corner::SOLVED, as the test            *)
(* swapping_n_corners_makes_fn_count_swaps_return_n builds them.  The      *)
(* corner of slot 0 starts with any orientation; `input` counts the swaps. *)

(* Bound on the number of transpositions applied to the corners. *)
MaxSwaps == 7

SwapInit ==
    /\ corners \in {[Corner_SOLVED EXCEPT ![0] = Corner_set_orientation(@, o)] :
                        o \in 0..2}
    /\ edges = Edge_SOLVED
    /\ moves_done = 0
    /\ table = <<>>
    /\ debug_assertions = TRUE
    /\ pc = "idle"
    /\ phase1_sol = <<>>
    /\ solution = <<>>
    /\ panic = ""
    /\ op = ""
    /\ input = [fn |-> "Corner::count_swaps", num_swaps |-> 0]
    /\ result = <<>>

(* corners.swap(i, j) of two distinct slots. *)
CornersSwap(i, j) ==
    /\ op = ""
    /\ input.num_swaps < MaxSwaps
    /\ corners' = [corners EXCEPT ![i] = corners[j], ![j] = corners[i]]
    /\ input' = [input EXCEPT !.num_swaps = @ + 1]
    /\ UNCHANGED <<edges, moves_done, op, result>>
    /\ UNCHANGED solver_vars

CountSwaps ==
    /\ op = ""
    /\ input.fn = "Corner::count_swaps"
    /\ op' = "Corner::count_swaps"
    /\ result' = Corner_count_swaps(corners)
    /\ UNCHANGED <<corners, edges, moves_done, input>>
    /\ UNCHANGED solver_vars

SwapNext ==
    \/ \E i \in 0..7 : \E j \in (i + 1)..7 : CornersSwap(i, j)
    \/ CountSwaps

SwapSpec == SwapInit /\ [][SwapNext]_vars

-----------------------------------------------------------------------------
(* CornerPosition::turn_distance and EdgePosition::turn_distance, and the  *)
(* loop of the tests turn_distnace_distribution_is_1_6_1, which counts in  *)
(* `bins` the distances from one position to every position of ALL.  The   *)
(* `input` holds the position drawn and the index in ALL of the position   *)
(* the loop takes next; `result` holds the bins.                           *)

(* count_ones of the three position bits, then div_ceil(2). *)
CornerPosition_turn_distance(self, other) ==
    (Xor1(Bit(self, 0), Bit(other, 0)) + Xor1(Bit(self, 1), Bit(other, 1))
        + Xor1(Bit(self, 2), Bit(other, 2)) + 1) \div 2

EdgePosition_faces(position) ==
    <<Face_new(Axis_next(EdgePosition_normal(position)), EdgePosition_a(position)),
      Face_new(Axis_prev(EdgePosition_normal(position)), EdgePosition_b(position))>>

(* turn_distance comparing each face with the face of the same place only. *)
EdgePosition_turn_distance_same_place(self, other) ==
    LET f == EdgePosition_faces(self)
        g == EdgePosition_faces(other)
    IN  2 - ((IF f[1] = g[1] THEN 1 ELSE 0) + (IF f[2] = g[2] THEN 1 ELSE 0))

EdgePosition_turn_distance(self, other) ==
    LET f == EdgePosition_faces(self)
        g == EdgePosition_faces(other)
        f1_shared == f[1] = g[1] \/ f[1] = g[2]
        f2_shared == f[2] = g[1] \/ f[2] = g[2]
    IN  2 - ((IF f1_shared THEN 1 ELSE 0) + (IF f2_shared THEN 1 ELSE 0))

TurnInit ==
    /\ corners = Corner_SOLVED
    /\ edges = Edge_SOLVED
    /\ moves_done = 0
    /\ table = <<>>
    /\ debug_assertions = TRUE
    /\ pc = "idle"
    /\ phase1_sol = <<>>
    /\ solution = <<>>
    /\ panic = ""
    /\ op = ""
    /\ input \in [fn : {"CornerPosition::turn_distance"}, position : 0..7,
                   len : {8}, next : {0}]
                 \cup [fn : {"EdgePosition::turn_distance"}, position : 0..11,
                       len : {12}, next : {0}]
    /\ result = [diff \in 0..2 |-> 0]

(* One turn of `for other in ALL`: bins[diff] += 1. *)
TurnDistanceBin ==
    /\ input.next < input.len
    /\ \E diff \in {IF input.fn = "CornerPosition::turn_distance"
                     THEN CornerPosition_turn_distance(input.position, input.next)
                     ELSE EdgePosition_turn_distance(input.position, input.next)} :
          result' = [result EXCEPT ![diff] = @ + 1]
    /\ input' = [input EXCEPT !.next = @ + 1]
    /\ op' = input.fn
    /\ UNCHANGED <<corners, edges, moves_done>>
    /\ UNCHANGED solver_vars

TurnSpec == TurnInit /\ [][TurnDistanceBin]_vars

-----------------------------------------------------------------------------
(* norcina-pyraminx/src/piece/center.rs and mov.rs: the Centers of the     *)
(* Pyraminx, the packed byte `BBLLUURR` of four orientations, under core   *)
(* moves `-----avv`.  `result` holds the byte and `input` the last move.   *)

(* Bound on the number of core moves applied to Centers::SOLVED. *)
MaxCoreMoves == 4

CoreMove_ALL == 0..7

CoreMove_vertex(mov) == mov % 4

CoreMove_amount(mov) == Shr(mov, 2) % 2

Centers_orientation_of(data, vertex) == Shr(data, vertex * 2) % 4

(* Centers::mov.  new_orientation is taken from the whole of               *)
(* `self.data >> (vertex * 2)`, the bits above the vertex's two included.  *)
(* The byte is at most 0b10101010, so the u8 sum does not overflow.        *)
Centers_mov(data, mov) ==
    LET orientation_delta == CoreMove_amount(mov) + 1
        shift == CoreMove_vertex(mov) * 2
        new_orientation == (Shr(data, shift) + orientation_delta) % 3
    IN  (data - ((Shr(data, shift) % 4) * Pow2(shift)))
            + (new_orientation * Pow2(shift))

CentersInit ==
    /\ corners = Corner_SOLVED
    /\ edges = Edge_SOLVED
    /\ moves_done = 0
    /\ table = <<>>
    /\ debug_assertions = TRUE
    /\ pc = "idle"
    /\ phase1_sol = <<>>
    /\ solution = <<>>
    /\ panic = ""
    /\ op = ""
    /\ input = <<>>
    /\ result = 0

CentersMov(mov) ==
    /\ moves_done < MaxCoreMoves
    /\ op' = "Centers::mov"
    /\ input' = mov
    /\ result' = Centers_mov(result, mov)
    /\ moves_done' = moves_done + 1
    /\ UNCHANGED <<corners, edges>>
    /\ UNCHANGED solver_vars

CentersSpec == CentersInit /\ [][\E mov \in CoreMove_ALL : CentersMov(mov)]_vars

-----------------------------------------------------------------------------
(* Properties of the cube kernel. *)

(* C2: in every cube reached from SOLVED by moves, the sum of the eight    *)
(* corner orientations is 0 modulo 3.                                      *)
C2_CornerOrientationSum ==
    (Corner_orientation(corners[0]) + Corner_orientation(corners[1])
        + Corner_orientation(corners[2]) + Corner_orientation(corners[3])
        + Corner_orientation(corners[4]) + Corner_orientation(corners[5])
        + Corner_orientation(corners[6]) + Corner_orientation(corners[7])) % 3 = 0

C2_Witness ==
    /\ moves_done > 0
    /\ \E i \in 0..7 : Corner_orientation(corners[i]) = 1
    /\ \E i \in 0..7 : Corner_orientation(corners[i]) = 2

(* C3: in every cube reached from SOLVED by moves, the number of edges     *)
(* whose orientation bit (bit 4) is set is even.                           *)
C3_EdgeFlipCountEven ==
    Cardinality({i \in 0..11 : Bit(edges[i], 4) = 1}) % 2 = 0

C3_Witness ==
    /\ moves_done = MaxMoves
    /\ Cardinality({i \in 0..11 : Bit(edges[i], 4) = 1}) = 6

(* C4: in every cube reached from SOLVED by moves, the swap count of the   *)
(* corner array and the swap count of the edge array have the same parity. *)
C4_PermutationParity ==
    Corner_count_swaps(corners) % 2 = Edge_count_swaps(edges) % 2

C4_Witness ==
    /\ moves_done > 0
    /\ Corner_count_swaps(corners) % 2 = 1
    /\ Edge_count_swaps(edges) % 2 = 1

(* C5: in every cube reached from SOLVED by moves, each corner home        *)
(* position is held by exactly one corner slot and each edge home position *)
(* by exactly one edge slot, every corner byte is below 32 with an         *)
(* orientation of at most 2, and every edge byte is below 32 with a        *)
(* position index below 12.                                                *)
C5_ValidPieces ==
    /\ \A p \in 0..7 :
          Cardinality({i \in 0..7 : Corner_position(corners[i]) = p}) = 1
    /\ \A p \in 0..11 :
          Cardinality({i \in 0..11 : Edge_position(edges[i]) = p}) = 1
    /\ \A i \in 0..7 :
          /\ corners[i] \in 0..31
          /\ Corner_orientation(corners[i]) <= 2
    /\ \A i \in 0..11 :
          /\ edges[i] \in 0..31
          /\ Edge_position(edges[i]) < 12

C5_Witness ==
    /\ moves_done = MaxMoves
    /\ \E i \in 0..7 : Corner_orientation(corners[i]) = 2
    /\ \E i \in 0..11 : Bit(edges[i], 4) = 1
    /\ \A i \in 0..7 : Corner_position(corners[i]) # i

(* C6: for every reached cube c and every move m, applying m and then      *)
(* m.inverse() gives c back.                                               *)
C6_MoveThenInverse ==
    \A m \in Move_ALL :
        mov_single(mov_single(cube, m), Move_inverse(m)) = cube

C6_Witness ==
    /\ moves_done = 2
    /\ ~is_solved(cube)
    /\ \A m \in Move_ALL :
          /\ mov_single(cube, m) # cube
          /\ mov_single(mov_single(cube, m), Move_inverse(m)) = cube

(* C7: for every reached cube c and every face, four Single moves of the   *)
(* face give c back, and two Double moves of the face give c back.         *)
C7_FaceOrder ==
    \A f \in Faces :
        /\ Cube_mov(cube, <<Move_new(f, Single), Move_new(f, Single),
                            Move_new(f, Single), Move_new(f, Single)>>) = cube
        /\ Cube_mov(cube, <<Move_new(f, Double), Move_new(f, Double)>>) = cube

C7_Witness ==
    /\ moves_done = 2
    /\ ~is_solved(cube)
    /\ \A f \in Faces :
          /\ Cube_mov(cube, <<Move_new(f, Single), Move_new(f, Single)>>) # cube
          /\ Cube_mov(cube, <<Move_new(f, Single), Move_new(f, Single),
                              Move_new(f, Single)>>) # cube
          /\ mov_single(cube, Move_new(f, Double)) # cube
          /\ Cube_mov(cube, <<Move_new(f, Single), Move_new(f, Single),
                              Move_new(f, Single), Move_new(f, Single)>>) = cube

(* C8: for every reached cube c and every face, the Single move of the     *)
(* face followed by its Double move gives the cube that its Reverse move   *)
(* gives.                                                                  *)
C8_SingleDoubleIsReverse ==
    \A f \in Faces :
        Cube_mov(cube, <<Move_new(f, Single), Move_new(f, Double)>>)
            = mov_single(cube, Move_new(f, Reverse))

C8_Witness ==
    /\ moves_done = 2
    /\ ~is_solved(cube)
    /\ \A f \in Faces :
          /\ mov_single(cube, Move_new(f, Reverse))
                 # mov_single(cube, Move_new(f, Single))
          /\ Cube_mov(cube, <<Move_new(f, Single), Move_new(f, Double)>>)
                 = mov_single(cube, Move_new(f, Reverse))

(* C9: is_in_g1 holds of SOLVED and of every cube reached from SOLVED by   *)
(* moves of G1_MOVES only.                                                 *)
C9_G1Closed == is_in_g1(cube)

C9_Witness ==
    /\ moves_done = MaxMoves
    /\ is_in_g1(cube)
    /\ \E i \in 0..7 : Corner_position(corners[i]) # i
    /\ \E i \in 0..11 :
          /\ EdgePosition_normal(i) = Axis_Y
          /\ Edge_position(edges[i]) # i

-----------------------------------------------------------------------------
(* Properties of the two-phase solver. *)

(* C1: for every cube reached from SOLVED by moves, when solve_with_table  *)
(* returns, the returned sequence is the phase-1 moves followed by the     *)
(* phase-2 moves, and applying it to the cube in order gives Cube::SOLVED. *)
C1_SolutionSolves ==
    pc = "returned" =>
        /\ SubSeq(solution.moves, 1, Len(phase1_sol.moves)) = phase1_sol.moves
        /\ Cube_mov(cube, solution.moves) = Cube_SOLVED

C1_Witness ==
    /\ pc = "returned"
    /\ moves_done = MaxScramble
    /\ ~is_in_g1(cube)
    /\ Len(phase1_sol.moves) > 0
    /\ Len(solution.moves) > Len(phase1_sol.moves)
    /\ Cube_mov(cube, solution.moves) = Cube_SOLVED

(* C10: for every cube reached from SOLVED by moves, solve_with_table with *)
(* a freshly generated PruneTable ends without a panic: no assert! or      *)
(* debug_assert! fails (the axis assert of corner::move_pieces and the     *)
(* debug_assert!(is_in_g1(cube)) of phase2_distance_heuristic included),   *)
(* no table index is out of range, and no unwrap or expect fails.          *)
C10_NoPanic ==
    /\ \A mov \in Move_ALL : corner_axis_assert(mov)
    /\ pc # "panicked"

(* C11: for every cube reached from SOLVED by moves, solve_with_table      *)
(* eventually ends with a solution: both IDA* phases reach their goal, and *)
(* the failure "Search space won't be exhausted." never occurs.            *)
C11_Terminates ==
    /\ <>(pc = "returned")
    /\ [](panic # "Search space won't be exhausted.")

-----------------------------------------------------------------------------
(* Properties of the prune tables. *)

(* Some sequence of at most k moves of the move set of `sub` takes `state` *)
(* to a state whose index is the index of the solved state.                *)
RECURSIVE C12_reaches_solved(_, _, _)
C12_reaches_solved(sub, state, k) ==
    \/ Subtable_index(sub, state) = Subtable_index(sub, sub.initial)
    \/ /\ k > 0
       /\ \E mov \in Subtable_moves(sub) :
              C12_reaches_solved(sub, Subtable_apply_mov(sub, state, mov), k - 1)

(* C12: after PruneTable::generate, for each of the six tables and every   *)
(* cube c reached from SOLVED with the move set of the table's phase, the  *)
(* entry table[index(c)] is the least number of moves of that move set     *)
(* that take c to a cube whose index is the index of the solved cube.      *)
C12_TableIsDistance ==
    pc = "idle" =>
        \A sub \in Subtables :
            (sub.phase1 \/ is_in_g1(cube)) =>
                \A entry \in {table_entry(PruneTable_field(table, sub), sub,
                                           Subtable_index(sub, Subtable_state(sub, cube)))} :
                    /\ entry.panic = ""
                    /\ entry.known =>
                          /\ C12_reaches_solved(sub, Subtable_state(sub, cube), entry.value)
                          /\ entry.value > 0 =>
                                ~C12_reaches_solved(sub, Subtable_state(sub, cube),
                                                    entry.value - 1)

(* C13: after generation, for each of the six tables, every index i and    *)
(* every move m of the move set of the table's phase, the entries at i and *)
(* at j = index(apply_mov(from_index(i), m)) differ by at most 1.  The     *)
(* indices i are those written within the passes that were run; a j that   *)
(* is written by the next pass reads as the depth of that pass.            *)
C13_NeighbourEntries ==
    (pc = "idle" /\ moves_done = 0) =>
        \A sub \in Subtables :
            \A i \in DOMAIN PruneTable_field(table, sub).buffer :
                \A mov \in Subtable_moves(sub) :
                    \A entry \in {table_entry(
                                       PruneTable_field(table, sub), sub,
                                       Subtable_index(sub, Subtable_apply_mov(
                                           sub, Subtable_from_index(sub, i), mov)))} :
                        /\ entry.panic = ""
                        /\ entry.value - PruneTable_field(table, sub).buffer[i] \in {-1, 0, 1}

C13_Witness ==
    /\ pc = "idle"
    /\ moves_done = 0
    /\ \A sub \in Subtables :
          \E i \in DOMAIN PruneTable_field(table, sub).buffer :
              /\ PruneTable_field(table, sub).buffer[i] = 2
              /\ \E m1, m2 \in Subtable_moves(sub) :
                    /\ table_entry(PruneTable_field(table, sub), sub,
                                   Subtable_index(sub, Subtable_apply_mov(
                                       sub, Subtable_from_index(sub, i), m1))).value = 1
                    /\ table_entry(PruneTable_field(table, sub), sub,
                                   Subtable_index(sub, Subtable_apply_mov(
                                       sub, Subtable_from_index(sub, i), m2))).value = 3

(* Some sequence of at most k moves takes c to a cube in G1. *)
RECURSIVE C14_reaches_g1(_, _)
C14_reaches_g1(c, k) ==
    \/ is_in_g1(c)
    \/ /\ k > 0
       /\ \E mov \in Move_ALL : C14_reaches_g1(mov_single(c, mov), k - 1)

(* C14: for every cube c reached from SOLVED by moves, the phase-1         *)
(* heuristic of c is at most the length of every move sequence that takes  *)
(* c into G1, and the sequence solve_to_g1 returns is a shortest one.      *)
C14_Phase1Admissible ==
    /\ pc = "idle" =>
          \A h \in {phase1_distance_heuristic(table, cube)} :
              (h.panic = "" /\ h.known /\ h.value > 0) =>
                  ~C14_reaches_g1(cube, h.value - 1)
    /\ (pc = "phase2" /\ Len(phase1_sol.moves) > 0) =>
          ~C14_reaches_g1(cube, Len(phase1_sol.moves) - 1)

-----------------------------------------------------------------------------
(* Properties of the search. *)

(* C15: the search of phase 2 (solve_from_g1) generates the successors of  *)
(* the state it expands with the 10 moves of G1_MOVES only, so every state *)
(* it evaluates phase2_distance_heuristic on is in G1.                     *)
C15_Phase2OnlyG1Moves ==
    (pc = "phase2" /\ ~is_solved(phase1_sol.final_state)) =>
        /\ \A k \in 1..18 :
              neighbors(phase1_sol.final_state)[k].mov \in G1_MOVES
        /\ \A s \in search_successors(<<phase1_sol.final_state>>, 2,
                                       neighbors(phase1_sol.final_state)) :
              is_in_g1(s.node)

-----------------------------------------------------------------------------
(* Properties of the coordinates. *)

(* C16: for each of the six coordinates and every i below its `max`,       *)
(* index(from_index(i)) = i.                                               *)
C16_IndexFromIndexIsIdentity ==
    op = "test_id" => result = input.i

(* test_id has been applied to the last index of every coordinate, and the *)
(* state it decoded is not the initial one.                                *)
C16_Witness ==
    /\ op = "test_id"
    /\ \E sub \in Subtables :
          /\ input = [subtable |-> sub.name, i |-> sub.max - 1]
          /\ result = sub.max - 1
          /\ Subtable_state(sub, cube) # sub.initial

-----------------------------------------------------------------------------
(* Properties of the random constructors. *)

(* C17: for every outcome of the draws, Corner::random returns 8 corner    *)
(* bytes with bits 5-7 zero and an orientation of at most 2, which hold    *)
(* each of the 8 home positions once and whose orientations sum to 0       *)
(* modulo 3.                                                               *)
C17_CornerRandomValid ==
    op = "Corner::random" =>
        /\ \A i \in 0..7 :
              corners[i] < Pow2(5) /\ Corner_orientation(corners[i]) <= 2
        /\ {Corner_position(corners[i]) : i \in 0..7} = 0..7
        /\ (Corner_orientation(corners[0]) + Corner_orientation(corners[1])
              + Corner_orientation(corners[2]) + Corner_orientation(corners[3])
              + Corner_orientation(corners[4]) + Corner_orientation(corners[5])
              + Corner_orientation(corners[6]) + Corner_orientation(corners[7]))
                  % 3 = 0

(* C18: for every outcome of the draws, Edge::random returns 12 edge bytes *)
(* with bits 5-7 zero and a position below 12, which hold each of the 12   *)
(* home positions once; the drawn bits are the orientation bits (bit 4) of *)
(* the first 11 edges, and the orientation bits of the 12 edges XOR to 0.  *)
C18_EdgeRandomValid ==
    op = "Edge::random" =>
        /\ \A i \in 0..11 :
              edges[i] < Pow2(5) /\ Edge_position(edges[i]) < 12
        /\ {Edge_position(edges[i]) : i \in 0..11} = 0..11
        /\ \A i \in 0..10 : (Bit(edges[i], 4) = 1) <=> input.orientation[i]
        /\ Cardinality({i \in 0..11 : Bit(edges[i], 4) = 1}) % 2 = 0

(* C19: for every outcome of the draws, the cube Cube::random_with_rng     *)
(* returns is reachable from SOLVED: its bytes are valid, every home       *)
(* position is held once, the corner orientations sum to 0 modulo 3, the   *)
(* edge orientation bits XOR to 0 and, after the conditional swap, the     *)
(* corner permutation and the edge permutation have the same parity.       *)
C19_RandomCubeReachable ==
    (op = "Cube::random_with_rng" /\ result.returned) =>
        /\ \A i \in 0..7 :
              corners[i] < Pow2(5) /\ Corner_orientation(corners[i]) <= 2
        /\ \A i \in 0..11 : edges[i] < Pow2(5)
        /\ {Corner_position(corners[i]) : i \in 0..7} = 0..7
        /\ {Edge_position(edges[i]) : i \in 0..11} = 0..11
        /\ Corner_count_swaps(corners) % 2 = Edge_count_swaps(edges) % 2
        /\ (Cardinality({i \in 0..7 : Corner_orientation(corners[i]) = 1})
              + (2 * Cardinality({i \in 0..7 :
                                     Corner_orientation(corners[i]) = 2})))
                  % 3 = 0
        /\ Cardinality({i \in 0..11 : ~Edge_is_oriented(edges[i])}) % 2 = 0

-----------------------------------------------------------------------------
(* Properties of move sequences. *)

(* C20: from SOLVED, the sequence R U R' U' applied k times in a row gives *)
(* SOLVED for k = 6 and for no k in 1..5.                                  *)
C20_SexyMoveOrderSix ==
    (/\ op = "Cube::mov"
     /\ input.alg = <<Move_new(Face_R, Single), Move_new(Face_U, Single),
                      Move_new(Face_R, Reverse), Move_new(Face_U, Reverse)>>)
        => (is_solved(cube) <=> moves_done = 6 * 4)

C20_Witness ==
    /\ op = "Cube::mov"
    /\ input.alg = <<Move_new(Face_R, Single), Move_new(Face_U, Single),
                     Move_new(Face_R, Reverse), Move_new(Face_U, Reverse)>>
    /\ moves_done = 6 * 4
    /\ is_solved(cube)

(* C21: from SOLVED, the 14 moves of the T permutation applied twice in a  *)
(* row give SOLVED.                                                        *)
C21_TPermTwice ==
    (op = "Cube::mov" /\ input.alg = algs_oll_T /\ moves_done = 2 * 14)
        => is_solved(cube)

(* The T permutation has been applied once and the cube is not solved,     *)
(* then a second time.                                                     *)
C21_Witness ==
    /\ op = "Cube::mov"
    /\ input.alg = algs_oll_T
    /\ moves_done = 2 * 14
    /\ ~is_solved(Cube_mov(Cube_SOLVED, algs_oll_T))
    /\ cube = Cube_mov(Cube_mov(Cube_SOLVED, algs_oll_T), algs_oll_T)

-----------------------------------------------------------------------------
(* Properties of the piece helpers. *)

(* C22: on 8 corners that hold each home position once, with any           *)
(* orientations, Corner::count_swaps returns 8 minus the number of cycles  *)
(* of the permutation; it returns 0 for the positions of SOLVED and, after *)
(* n transpositions of slots, at most n with the parity of n.              *)
C22_CountSwaps ==
    op = "Corner::count_swaps" =>
        LET p == [i \in 0..7 |-> Corner_position(corners[i])]
            p2 == [i \in 0..7 |-> p[p[i]]]
            p4 == [i \in 0..7 |-> p2[p2[i]]]
            cycle(i) == {i, p[i], p2[i], p2[p[i]], p4[i], p4[p[i]], p4[p2[i]],
                         p4[p2[p[i]]]}
        IN  /\ result = 8 - Cardinality({cycle(i) : i \in 0..7})
            /\ p = [i \in 0..7 |-> i] => result = 0
            /\ result <= input.num_swaps
            /\ result % 2 = input.num_swaps % 2

(* count_swaps has run on a single cycle of all 8 corners, made by 7 swaps, *)
(* with the corner of slot 0 twisted.                                      *)
C22_Witness ==
    /\ op = "Corner::count_swaps"
    /\ input.num_swaps = 7
    /\ result = 7
    /\ \E i \in 0..7 : Corner_orientation(corners[i]) = 2

-----------------------------------------------------------------------------
(* Frame properties of the moves. *)

(* C24: a move leaves the byte of every corner slot and of every edge slot *)
(* that does not lie on its face unchanged; 4 corner slots and 4 edge      *)
(* slots lie on the face.                                                  *)
C24_MoveFrame ==
    [][\A mov \in Move_ALL :
          MovSingle(mov) =>
              /\ \A i \in 0..7 :
                    ~CornerPosition_contains_face(i, Move_face(mov))
                        => corners'[i] = corners[i]
              /\ \A i \in 0..11 :
                    (\A k \in 1..2 : EdgePosition_faces(i)[k] # Move_face(mov))
                        => edges'[i] = edges[i]
              /\ Cardinality({i \in 0..7 :
                      CornerPosition_contains_face(i, Move_face(mov))}) = 4
              /\ Cardinality({i \in 0..11 :
                      \E k \in 1..2 : EdgePosition_faces(i)[k] = Move_face(mov)}) = 4
      ]_vars

(* A move has changed the 4 corner slots and the 4 edge slots of its face  *)
(* on a cube that two moves had scrambled.                                 *)
C24_Witness ==
    /\ moves_done = 3
    /\ \E mov \in Move_ALL :
          /\ cube = mov_single(mov_single(cube, Move_inverse(mov)), mov)
          /\ \E before \in {mov_single(cube, Move_inverse(mov))} :
                /\ Cardinality({i \in 0..7 :
                        corners[i] # before.corners[i]}) = 4
                /\ Cardinality({i \in 0..11 :
                        edges[i] # before.edges[i]}) = 4
                /\ before.corners # Corner_SOLVED

-----------------------------------------------------------------------------
(* Properties of the coordinates and the tables built on them. *)

(* C26, as stated: for each of the six coordinates the solved piece array  *)
(* has index 0, so the entry that the generation sets to 0 first is entry  *)
(* 0 of every table.                                                       *)
C26_SolvedIndexIsZero ==
    \A sub \in Subtables :
        /\ Subtable_index(sub, sub.initial) = 0
        /\ 0 \in DOMAIN PruneTable_field(table, sub).buffer
        /\ PruneTable_field(table, sub).buffer[0] = 0

(* C26, amended: the entry that the generation sets to 0 first is entry    *)
(* index(initial), the only entry of the table that holds 0; that index is *)
(* 0 for five coordinates and 69 for IS_ON_Y_SLICE.                        *)
C26_InitialEntryIsZero ==
    \A sub \in Subtables :
        \A k \in {Subtable_index(sub, sub.initial)} :
            /\ k = (IF sub.name = "IS_ON_Y_SLICE" THEN 69 ELSE 0)
            /\ k \in DOMAIN PruneTable_field(table, sub).buffer
            /\ \A i \in DOMAIN PruneTable_field(table, sub).buffer :
                  PruneTable_field(table, sub).buffer[i] = 0 <=> i = k

(* The tables are generated; entry 69 of put_edges_to_y_slice holds 0 and  *)
(* its entry 0 was written by a later pass.                                *)
C26_Witness ==
    /\ pc = "idle"
    /\ table.put_edges_to_y_slice.buffer[69] = 0
    /\ 0 \in DOMAIN table.put_edges_to_y_slice.buffer
    /\ table.put_edges_to_y_slice.buffer[0] > 0
    /\ table.orient_corners.buffer[0] = 0

(* C27: for every coordinate and every cube reached from SOLVED (in G1 for *)
(* the three coordinates of phase 2), from_index(index(s)) agrees with s   *)
(* on what the coordinate encodes: the twist of each of the 8 corner       *)
(* slots, the flip of each of the 12 edge slots, the set of slots that     *)
(* hold Y-normal edges, and the home position of the piece in every        *)
(* encoded slot of the three permutation coordinates.                      *)
C27_FromIndexOfIndex ==
    /\ \A i \in 0..7 :
          Corner_orientation(
              CORNER_ORIENTATION_from_index(CORNER_ORIENTATION_index(corners))[i])
              = Corner_orientation(corners[i])
    /\ \A i \in 0..11 :
          Bit(EDGE_ORIENTATION_from_index(EDGE_ORIENTATION_index(edges))[i], 4)
              = Bit(edges[i], 4)
    /\ {i \in 0..11 :
            EdgePosition_normal(Edge_position(
                IS_ON_Y_SLICE_from_index(IS_ON_Y_SLICE_index(edges))[i])) = Axis_Y}
          = {i \in 0..11 : EdgePosition_normal(Edge_position(edges[i])) = Axis_Y}
    /\ is_in_g1(cube) =>
          /\ \A i \in 0..7 :
                Corner_position(
                    CORNER_POSITION_from_index(CORNER_POSITION_index(corners))[i])
                    = Corner_position(corners[i])
          /\ \A i \in (0..3) \cup (8..11) :
                Edge_position(
                    Y_SLICE_POSITION_from_index(Y_SLICE_POSITION_index(edges))[i])
                    = Edge_position(edges[i])
          /\ \A i \in 4..7 :
                Edge_position(
                    NON_Y_SLICE_POSITION_from_index(
                        NON_Y_SLICE_POSITION_index(edges))[i])
                    = Edge_position(edges[i])

(* C28: for every coordinate, every cube reached from SOLVED (in G1 for    *)
(* the coordinates of phase 2) and every move of the phase, the move       *)
(* applied to from_index(index(s)) has the index of the move applied to s. *)
C28_CoordinateIsProjection ==
    \A sub \in Subtables :
        (sub.phase1 \/ is_in_g1(cube)) =>
            \A s \in {Subtable_state(sub, cube)} :
            \A decoded \in {Subtable_from_index(sub, Subtable_index(sub, s))} :
            \A mov \in Subtable_moves(sub) :
                Subtable_index(sub, Subtable_apply_mov(sub, s, mov))
                    = Subtable_index(sub, Subtable_apply_mov(sub, decoded, mov))

(* C29: for every cube reached from SOLVED, phase1_distance_heuristic is 0 *)
(* exactly when the cube is in G1.                                         *)
C29_Phase1ZeroIffG1 ==
    pc = "idle" =>
        \A h \in {phase1_distance_heuristic(table, cube)} :
            /\ h.panic = ""
            /\ (h.known /\ h.value = 0) <=> is_in_g1(cube)

(* The heuristic has been read on a cube in G1 that is not solved and on a *)
(* cube one move away from it that is not in G1.                           *)
C29_Witness ==
    /\ pc = "idle"
    /\ moves_done = 2
    /\ ~is_in_g1(cube)
    /\ phase1_distance_heuristic(table, cube).value = 1
    /\ \E mov \in Move_ALL \ G1_MOVES :
          /\ is_in_g1(mov_single(cube, mov))
          /\ ~is_solved(mov_single(cube, mov))
          /\ phase1_distance_heuristic(table, mov_single(cube, mov)).value = 0

-----------------------------------------------------------------------------
(* Properties of the Pyraminx centers. *)

(* C30: on every Centers reached from SOLVED by core moves, a core move of *)
(* vertex v sets orientation_of(v) to (old + 1) mod 3 when it is Single    *)
(* and to (old + 2) mod 3 when it is Reverse, and leaves orientation_of(w) *)
(* unchanged for every other vertex w.                                     *)
C30_CentersMov ==
    [][\A mov \in CoreMove_ALL :
          CentersMov(mov) =>
              \A w \in 0..3 :
                  Centers_orientation_of(result', w)
                      = IF w = CoreMove_vertex(mov)
                        THEN (Centers_orientation_of(result, w)
                                 + CoreMove_amount(mov) + 1) % 3
                        ELSE Centers_orientation_of(result, w)
      ]_vars

====
